---- MODULE Spec2Model ----
(***************************************************************************)
(* Model of callbacks.py: three Keras callbacks                            *)
(*   detect_oscillation_about_minima, increment_in_loss,                   *)
(*   loss_after_each_batch                                                 *)
(* One callback instance is constructed (Init) and a host then invokes its *)
(* lifecycle hooks.  The hooks are pure operators over a record `self`     *)
(* holding the instance's attributes, the host model's stop_training flag  *)
(* and the exception (if any) the hook ended with.                         *)
(*                                                                         *)
(* Loss values are exact numbers; a quotient is kept as a reduced fraction *)
(* <<numerator, denominator>> (Python 3 true division).                    *)
(***************************************************************************)
EXTENDS Integers, Sequences, FiniteSets, TLC

\* ------------------------------------------------------------------ bounds
\* Loss values the host may report (logs.get('loss')): zero, two values whose
\* relative difference is below 0.001 %, and a value far from both.
Losses == {0, 200000, 200001, 400000}
\* Total number of loss-carrying hook calls made on the instance.
MaxFed == 5
\* Number of on_train_begin calls made on the instance.
MaxRuns == 2
\* increment_in_loss(threshold=3)
DefaultThreshold == 3
Thresholds == 1..DefaultThreshold

DOM == "detect_oscillation_about_minima"
IIL == "increment_in_loss"
LAB == "loss_after_each_batch"

VARIABLES
    cls,              \* class of the instance
    threshold,        \* increment_in_loss.threshold (0: no such attribute)
    losses,           \* self.losses
    has_losses,       \* whether the attribute self.losses exists
    epoch_count,      \* self.epoch_count
    error_count,      \* self.error_count
    loss_convergence, \* self.loss_convergence, a fraction <<num, den>>
    stop_training,    \* self.model.stop_training
    raised,           \* exception the last hook ended with, or "none"
    hook,             \* name of the last hook invoked ("__init__" at first)
    hist,             \* losses passed to the instance since on_train_begin
    runs,             \* number of on_train_begin calls so far
    fed,              \* number of loss-carrying calls so far
    phase,            \* "constructed", "training" or "ended"
    proto             \* the calls so far are those of a host training loop

vars == <<cls, threshold, losses, has_losses, epoch_count, error_count,
          loss_convergence, stop_training, raised, hook, hist, runs, fed,
          phase, proto>>

\* ------------------------------------------------------------ arithmetic
Abs(x) == IF x < 0 THEN -x ELSE x

RECURSIVE Gcd(_, _)
Gcd(a, b) == IF b = 0 THEN a ELSE Gcd(b, a % b)

\* a / b as a reduced fraction with a positive denominator (b # 0)
Div(a, b) ==
    LET g == Gcd(Abs(a), Abs(b))
        s == IF b < 0 THEN -1 ELSE 1
    IN  <<(s * a) \div g, (s * b) \div g>>

\* an integer as a fraction
Num(a) == <<a, 1>>

\* Python list indexing: l[i] with negative indices counted from the end
InRange(l, i) == -Len(l) <= i /\ i < Len(l)
Idx(l, i) == IF i >= 0 THEN l[i + 1] ELSE l[Len(l) + i + 1]

\* list.pop(i): the list without the element at index i (InRange(l, i))
Pop(l, i) ==
    LET k == IF i >= 0 THEN i + 1 ELSE Len(l) + i + 1
    IN  SubSeq(l, 1, k - 1) \o SubSeq(l, k + 1, Len(l))

\* a fraction's absolute value
AbsFrac(f) == <<Abs(f[1]), f[2]>>

\* f < 0.001 for a fraction f >= 0: num * 1000 < den, written without the
\* product so that it stays within the checker's integers
BelowThousandth(f) == f[1] <= (f[2] - 1) \div 1000

\* ---------------------------------------------------------------- objects
\* The instance and its host model as one record.
Self ==
    [losses |-> losses, has_losses |-> has_losses, epoch_count |-> epoch_count,
     error_count |-> error_count, loss_convergence |-> loss_convergence,
     threshold |-> threshold, stop_training |-> stop_training,
     raised |-> raised]

\* A result of a helper that returns a value: the object and the value.
Ret(self, v) == [self |-> self, ret |-> v]

\* --------------------------------------- detect_oscillation_about_minima
detect_oscillation_about_minima_init ==
    [losses |-> <<>>, has_losses |-> TRUE, epoch_count |-> 0,
     error_count |-> 0, loss_convergence |-> Num(0), threshold |-> 0,
     stop_training |-> FALSE, raised |-> "none"]

detect_oscillation_about_minima_on_train_begin(self) ==
    [self EXCEPT !.losses = <<>>, !.has_losses = TRUE, !.raised = "none"]

\* difference / losses[epoch_count-1] raises ZeroDivisionError when the
\* previous loss is 0; otherwise change < 0.001 is decided exactly.
check_convergence(self) ==
    LET l == self.losses
        e == self.epoch_count
        prev == Idx(l, e - 1)
        difference == Idx(l, e) - prev
    IN  IF prev = 0
        THEN Ret([self EXCEPT !.raised = "ZeroDivisionError"], FALSE)
        ELSE LET change == AbsFrac(Div(difference * 100, prev))
             IN  IF BelowThousandth(change)
                 THEN Ret([self EXCEPT !.loss_convergence = Num(prev)], TRUE)
                 ELSE Ret(self, FALSE)

\* Called with epoch_count > 3 and epoch_count a valid index, so every index
\* read here is valid and the list holds at least four entries.
check_oscillation(self) ==
    LET l == self.losses
        e == self.epoch_count
        sum_of_values == Idx(l, -1) + Idx(l, -2) + Idx(l, -3) + Idx(l, -4)
    IN  IF /\ Idx(l, e - 1) < Idx(l, e)
           /\ Idx(l, e - 2) > Idx(l, e - 1)
           /\ Idx(l, e - 3) < Idx(l, e - 2)
        THEN Ret([self EXCEPT !.loss_convergence = Div(sum_of_values, 4)], TRUE)
        ELSE Ret(self, FALSE)

detect_oscillation_about_minima_on_epoch_end(self, loss) ==
    LET s0 == [self EXCEPT !.losses = Append(@, loss), !.raised = "none"]
        l == s0.losses
        e == s0.epoch_count
    IN  IF e = 0 THEN [s0 EXCEPT !.epoch_count = @ + 1]
        ELSE IF ~(InRange(l, e - 1) /\ InRange(l, e))
        THEN [s0 EXCEPT !.raised = "IndexError"]
        ELSE
        LET s1 == IF Idx(l, e - 1) = Idx(l, e)
                  THEN [s0 EXCEPT !.loss_convergence = Num(Idx(l, e)),
                                  !.stop_training = TRUE]
                  ELSE s0
            osc == IF e > 3 THEN check_oscillation(s1) ELSE Ret(s1, FALSE)
            s2 == IF osc.ret THEN [osc.self EXCEPT !.stop_training = TRUE]
                  ELSE osc.self
            conv == check_convergence(s2)
            s3 == IF conv.ret THEN [conv.self EXCEPT !.stop_training = TRUE]
                  ELSE conv.self
        IN  IF s3.raised # "none" THEN s3
            ELSE [s3 EXCEPT !.epoch_count = @ + 1]

\* ------------------------------------------------------ increment_in_loss
increment_in_loss_init(n) ==
    [losses |-> <<>>, has_losses |-> TRUE, epoch_count |-> 0,
     error_count |-> 0, loss_convergence |-> Num(0), threshold |-> n,
     stop_training |-> FALSE, raised |-> "none"]

\* Faulty variant: on_train_begin that keeps the recorded losses.
increment_in_loss_on_train_begin_keeps(self) ==
    [self EXCEPT !.has_losses = TRUE, !.raised = "none"]

increment_in_loss_on_train_begin(self) ==
    [self EXCEPT !.losses = <<>>, !.has_losses = TRUE, !.raised = "none"]

\* Faulty variant: on_epoch_end that assigns the flag the outcome of the
\* threshold test, clearing it when the test fails.
increment_in_loss_on_epoch_end_assigns_test(self, loss) ==
    LET s0 == [self EXCEPT !.losses = Append(@, loss), !.raised = "none"]
        l == s0.losses
        e == s0.epoch_count
    IN  IF e = 0 THEN [s0 EXCEPT !.epoch_count = @ + 1]
        ELSE IF ~(InRange(l, e - 1) /\ InRange(l, e))
        THEN [s0 EXCEPT !.raised = "IndexError"]
        ELSE
        LET s1 == IF Idx(l, e - 1) < Idx(l, e)
                  THEN LET c == s0.error_count + 1
                       IN  [s0 EXCEPT !.error_count = c,
                                      !.stop_training = (c = s0.threshold)]
                  ELSE [s0 EXCEPT !.error_count = 0]
        IN  [s1 EXCEPT !.epoch_count = @ + 1]

increment_in_loss_on_epoch_end(self, loss) ==
    LET s0 == [self EXCEPT !.losses = Append(@, loss), !.raised = "none"]
        l == s0.losses
        e == s0.epoch_count
    IN  IF e = 0 THEN [s0 EXCEPT !.epoch_count = @ + 1]
        ELSE IF ~(InRange(l, e - 1) /\ InRange(l, e))
        THEN [s0 EXCEPT !.raised = "IndexError"]
        ELSE
        LET s1 == IF Idx(l, e - 1) < Idx(l, e)
                  THEN LET c == s0.error_count + 1
                       IN  [s0 EXCEPT !.error_count = c,
                                      !.stop_training =
                                          IF c = s0.threshold THEN TRUE ELSE @]
                  ELSE [s0 EXCEPT !.error_count = 0]
        IN  [s1 EXCEPT !.epoch_count = @ + 1]

\* for x in range(threshold): losses.pop(-x-1); pop raises IndexError when
\* the index is out of range, leaving the pops already made in place.
RECURSIVE pop_loop(_, _, _)
pop_loop(l, x, n) ==
    IF x >= n THEN [losses |-> l, raised |-> "none"]
    ELSE IF ~InRange(l, -x - 1) THEN [losses |-> l, raised |-> "IndexError"]
    ELSE pop_loop(Pop(l, -x - 1), x + 1, n)

\* Faulty variant: on_train_end that leaves epoch_count as it is.
increment_in_loss_on_train_end_no_rewind(self) ==
    LET r == pop_loop(self.losses, 0, self.threshold)
    IN  [self EXCEPT !.losses = r.losses, !.raised = r.raised]

increment_in_loss_on_train_end(self) ==
    LET r == pop_loop(self.losses, 0, self.threshold)
    IN  [self EXCEPT !.epoch_count = @ - self.threshold,
                     !.losses = r.losses, !.raised = r.raised]

\* -------------------------------------------------- loss_after_each_batch
\* The class defines no __init__: the attribute losses does not exist until
\* on_train_begin.
loss_after_each_batch_init ==
    [losses |-> <<>>, has_losses |-> FALSE, epoch_count |-> 0,
     error_count |-> 0, loss_convergence |-> Num(0), threshold |-> 0,
     stop_training |-> FALSE, raised |-> "none"]

loss_after_each_batch_on_train_begin(self) ==
    [self EXCEPT !.losses = <<>>, !.has_losses = TRUE, !.raised = "none"]

\* Faulty variants: on_batch_end that keeps only the newest loss, and
\* on_batch_end that puts the newest loss first.
loss_after_each_batch_on_batch_end_overwrites(self, loss) ==
    IF ~self.has_losses THEN [self EXCEPT !.raised = "AttributeError"]
    ELSE [self EXCEPT !.losses = <<loss>>, !.raised = "none"]

loss_after_each_batch_on_batch_end_prepends(self, loss) ==
    IF ~self.has_losses THEN [self EXCEPT !.raised = "AttributeError"]
    ELSE [self EXCEPT !.losses = <<loss>> \o @, !.raised = "none"]

loss_after_each_batch_on_batch_end(self, loss) ==
    IF ~self.has_losses THEN [self EXCEPT !.raised = "AttributeError"]
    ELSE [self EXCEPT !.losses = Append(@, loss), !.raised = "none"]

\* A hook the class does not define: the base class's hook does nothing.
inherited_hook(self) == [self EXCEPT !.raised = "none"]

\* ------------------------------------------------------------------ host
\* The attributes after a hook returned (or raised) with the object r.
Apply(r) ==
    /\ losses' = r.losses
    /\ has_losses' = r.has_losses
    /\ epoch_count' = r.epoch_count
    /\ error_count' = r.error_count
    /\ loss_convergence' = r.loss_convergence
    /\ threshold' = r.threshold
    /\ stop_training' = r.stop_training
    /\ raised' = r.raised

\* Whether hook h comes next in a host training loop: on_train_begin, then
\* batch and epoch hooks until the stop flag is set, then on_train_end.
InOrder(h) ==
    CASE h = "on_train_begin" -> phase \in {"constructed", "ended"}
      [] h = "on_train_end" -> phase = "training"
      [] OTHER -> phase = "training" /\ ~stop_training

\* Bookkeeping of the calls: h is the hook, recorded says whether the class
\* records the loss passed to h.
Called(h, recorded, loss) ==
    /\ hook' = h
    /\ hist' = IF h = "on_train_begin" THEN <<>>
               ELSE IF recorded THEN Append(hist, loss) ELSE hist
    /\ runs' = IF h = "on_train_begin" THEN runs + 1 ELSE runs
    /\ fed' = IF recorded THEN fed + 1 ELSE fed
    /\ phase' = IF h = "on_train_begin" THEN "training"
                ELSE IF h = "on_train_end" THEN "ended" ELSE phase
    /\ proto' = (proto /\ raised = "none" /\ InOrder(h))
    /\ UNCHANGED cls

Init ==
    /\ cls \in {DOM, IIL, LAB}
    /\ \E r \in ( IF cls = DOM THEN {detect_oscillation_about_minima_init}
                  ELSE IF cls = IIL
                  THEN {increment_in_loss_init(n) : n \in Thresholds}
                  ELSE {loss_after_each_batch_init} ) :
          /\ losses = r.losses
          /\ has_losses = r.has_losses
          /\ epoch_count = r.epoch_count
          /\ error_count = r.error_count
          /\ loss_convergence = r.loss_convergence
          /\ threshold = r.threshold
          /\ stop_training = r.stop_training
          /\ raised = r.raised
    /\ hook = "__init__"
    /\ hist = <<>>
    /\ runs = 0
    /\ fed = 0
    /\ phase = "constructed"
    /\ proto = TRUE

DomTrainBegin ==
    /\ cls = DOM /\ runs < MaxRuns
    /\ Apply(detect_oscillation_about_minima_on_train_begin(Self))
    /\ Called("on_train_begin", FALSE, 0)

DomEpochEnd ==
    /\ cls = DOM /\ fed < MaxFed
    /\ \E loss \in Losses :
          /\ Apply(detect_oscillation_about_minima_on_epoch_end(Self, loss))
          /\ Called("on_epoch_end", TRUE, loss)

IilTrainBegin ==
    /\ cls = IIL /\ runs < MaxRuns
    /\ Apply(increment_in_loss_on_train_begin(Self))
    /\ Called("on_train_begin", FALSE, 0)

IilEpochEnd ==
    /\ cls = IIL /\ fed < MaxFed
    /\ \E loss \in Losses :
          /\ Apply(increment_in_loss_on_epoch_end(Self, loss))
          /\ Called("on_epoch_end", TRUE, loss)

IilTrainEnd ==
    /\ cls = IIL /\ phase # "ended"
    /\ Apply(increment_in_loss_on_train_end(Self))
    /\ Called("on_train_end", FALSE, 0)

LabTrainBegin ==
    /\ cls = LAB /\ runs < MaxRuns
    /\ Apply(loss_after_each_batch_on_train_begin(Self))
    /\ Called("on_train_begin", FALSE, 0)

LabBatchEnd ==
    /\ cls = LAB /\ fed < MaxFed
    /\ \E loss \in Losses :
          /\ Apply(loss_after_each_batch_on_batch_end(Self, loss))
          /\ Called("on_batch_end", TRUE, loss)

\* Hooks inherited from the base class: on_batch_end of the two per-epoch
\* callbacks, on_epoch_end of loss_after_each_batch, on_train_end of the two
\* classes that do not define it.
InheritedBatchEnd ==
    /\ cls \in {DOM, IIL}
    /\ Apply(inherited_hook(Self))
    /\ Called("on_batch_end", FALSE, 0)

InheritedEpochEnd ==
    /\ cls = LAB
    /\ Apply(inherited_hook(Self))
    /\ Called("on_epoch_end", FALSE, 0)

InheritedTrainEnd ==
    /\ cls \in {DOM, LAB} /\ phase # "ended"
    /\ Apply(inherited_hook(Self))
    /\ Called("on_train_end", FALSE, 0)

Next ==
    \/ DomTrainBegin
    \/ DomEpochEnd
    \/ IilTrainBegin
    \/ IilEpochEnd
    \/ IilTrainEnd
    \/ LabTrainBegin
    \/ LabBatchEnd
    \/ InheritedBatchEnd
    \/ InheritedEpochEnd
    \/ InheritedTrainEnd

Spec == Init /\ [][Next]_vars

\* Several callbacks registered together, callbacks=[callback_1, ...], share
\* one model.  Seen from the instance, a hook of another registered callback
\* touches the model only through the statement
\* self.model.stop_training = True, the one write to the model in the file.
PeerStopsTraining ==
    /\ ~stop_training
    /\ stop_training' = TRUE
    /\ UNCHANGED <<cls, threshold, losses, has_losses, epoch_count,
                   error_count, loss_convergence, raised, hook, hist, runs,
                   fed, phase, proto>>

NextTogether == Next \/ PeerStopsTraining

SpecTogether == Init /\ [][NextTogether]_vars

\* ================================================================ claims
\* The instance was freshly constructed and has since been driven through
\* exactly one host training run, still in progress or just ended.
FreshRun == proto /\ runs = 1

\* The last n entries of h are each >= (resp. >) the entry before them.
NonDecreasingTail(h, n) ==
    /\ Len(h) >= n + 1
    /\ \A i \in (Len(h) - n + 1)..Len(h) : h[i - 1] <= h[i]

IncreasingTail(h, n) ==
    /\ Len(h) >= n + 1
    /\ \A i \in (Len(h) - n + 1)..Len(h) : h[i - 1] < h[i]

\* C1: increment_in_loss, fresh instance, one training run: once the loss has
\* not decreased for threshold consecutive epochs (each >= the one before),
\* on_epoch_end has set the stop flag.
C1_StopsAfterNonDecreasing ==
    ( /\ cls = IIL /\ FreshRun /\ hook = "on_epoch_end"
      /\ NonDecreasingTail(hist, threshold) )
    => stop_training

\* The attributes a caller can observe on the instance, and whether the
\* last hook raised.
Observed(self) ==
    <<self.losses, self.epoch_count, self.error_count,
      self.loss_convergence, self.raised>>

\* A freshly constructed instance after on_train_begin and one on_epoch_end
\* per entry of h.
RECURSIVE Replay(_, _, _)
Replay(c, self, h) ==
    IF h = <<>> THEN self
    ELSE Replay(c,
                IF c = DOM
                THEN detect_oscillation_about_minima_on_epoch_end(self, Head(h))
                ELSE increment_in_loss_on_epoch_end(self, Head(h)),
                Tail(h))

FreshAfter(c, n, h) ==
    IF c = DOM
    THEN Replay(c, detect_oscillation_about_minima_on_train_begin(
                       detect_oscillation_about_minima_init), h)
    ELSE Replay(c, increment_in_loss_on_train_begin(
                       increment_in_loss_init(n)), h)

\* C2: for detect_oscillation_about_minima and increment_in_loss, in a second
\* run that follows a complete first run, the instance after on_train_begin
\* and after every on_epoch_end is as a fresh instance fed the same losses.
C2_StatelessBetweenRuns ==
    ( /\ cls \in {DOM, IIL} /\ proto /\ runs = 2
      /\ hook \in {"on_train_begin", "on_epoch_end"} )
    => Observed(Self) = Observed(FreshAfter(cls, threshold, hist))

\* s is t with some entries left out, the others in their order
RECURSIVE IsSubseq(_, _)
IsSubseq(s, t) ==
    IF s = <<>> THEN TRUE
    ELSE IF t = <<>> THEN FALSE
    ELSE IF Head(s) = Head(t) THEN IsSubseq(Tail(s), Tail(t))
    ELSE IsSubseq(s, Tail(t))

\* the hook just invoked is the one with which the class records a loss
Recording ==
    \/ cls \in {DOM, IIL} /\ hook' = "on_epoch_end"
    \/ cls = LAB /\ hook' = "on_batch_end"

\* C3 (as stated): every hook other than on_train_begin keeps the entries of
\* losses in place, and the recording hook adds exactly one entry at the end.
C3_AppendOnly ==
    [][ (has_losses /\ hook' # "on_train_begin")
        => /\ Len(losses') >= Len(losses)
           /\ SubSeq(losses', 1, Len(losses)) = losses
           /\ Len(losses') = Len(losses) + (IF Recording THEN 1 ELSE 0) ]_vars

\* C3 (amended): every hook other than on_train_begin and
\* increment_in_loss.on_train_end keeps the entries of losses in place, and
\* the recording hook adds exactly one entry at the end;
\* increment_in_loss.on_train_end removes at most threshold entries and keeps
\* the others in their order.
C3_AppendOnlyButTrainEnd ==
    [][ (has_losses /\ hook' # "on_train_begin")
        => IF cls = IIL /\ hook' = "on_train_end"
           THEN /\ IsSubseq(losses', losses)
                /\ Len(losses') >= Len(losses) - threshold
           ELSE /\ Len(losses') >= Len(losses)
                /\ SubSeq(losses', 1, Len(losses)) = losses
                /\ Len(losses') = Len(losses) + (IF Recording THEN 1 ELSE 0)
      ]_vars

\* increment_in_loss.on_train_end has removed entries recorded in the run
C3_Witness ==
    /\ cls = IIL /\ hook = "on_train_end" /\ raised = "none"
    /\ Len(hist) >= 3 /\ Len(losses) < Len(hist) /\ Len(losses) > 0

\* C4: immediately after on_train_begin the losses sequence is empty,
\* whatever hooks were invoked on the instance before.
C4_EmptyAfterTrainBegin ==
    hook = "on_train_begin" => (has_losses /\ losses = <<>>)

\* on_train_begin after losses were recorded by calls made in no host order
C4_Witness ==
    /\ hook = "on_train_begin" /\ runs = 2 /\ fed >= 2 /\ ~proto
    /\ losses = <<>>

\* The run on a fresh instance has ended with on_train_end after the
\* callback set the stop flag (the host stops at the epoch that sets it).
StoppedRunEnded ==
    /\ cls = IIL /\ FreshRun /\ hook = "on_train_end" /\ stop_training

\* C5: increment_in_loss, after a stopped run and on_train_end: losses is the
\* recorded history without its last threshold entries, so losses[-1] is the
\* loss of the last epoch before the threshold increasing epochs.
C5_LossBeforeIncrease ==
    StoppedRunEnded
    => /\ losses = SubSeq(hist, 1, Len(hist) - threshold)
       /\ Idx(losses, -1) = hist[Len(hist) - threshold]

\* C6: increment_in_loss, after a stopped run and on_train_end: the last
\* threshold epochs are the increasing ones and epoch_count is the number of
\* epochs completed before the first of them.
C6_EpochCountAtIncrease ==
    StoppedRunEnded
    => /\ IncreasingTail(hist, threshold)
       /\ epoch_count = Len(hist) - threshold

\* a run stopped by the default threshold has ended
C6_Witness ==
    /\ StoppedRunEnded /\ threshold = DefaultThreshold
    /\ Len(hist) = 5 /\ epoch_count = 2

\* C7: detect_oscillation_about_minima, fresh instance, one run: after
\* every on_epoch_end epoch_count is the number of epochs completed, which
\* is len(losses).
C7_EpochCountIsEpochs ==
    (cls = DOM /\ FreshRun /\ hook = "on_epoch_end")
    => (epoch_count = Len(hist) /\ epoch_count = Len(losses))

\* the four most recent losses go up, down, up
UpDownUp(h) ==
    /\ Len(h) >= 4
    /\ h[Len(h) - 3] < h[Len(h) - 2]
    /\ h[Len(h) - 2] > h[Len(h) - 1]
    /\ h[Len(h) - 1] < h[Len(h)]

\* C8: detect_oscillation_about_minima: when on_epoch_end stops training
\* because check_oscillation returned true (in a fresh run: the fifth or a
\* later epoch, the last four losses going up, down, up), loss_convergence
\* after the hook is the sum of the four most recent losses divided by 4.
C8_MeanOfLastFour ==
    ( /\ cls = DOM /\ FreshRun /\ hook = "on_epoch_end"
      /\ Len(hist) >= 5 /\ UpDownUp(hist) /\ stop_training )
    => loss_convergence[1] * 4 =
           loss_convergence[2] * ( hist[Len(hist)] + hist[Len(hist) - 1]
                                 + hist[Len(hist) - 2] + hist[Len(hist) - 3] )

\* C9: loss_after_each_batch: after on_train_begin and any batch and epoch
\* hooks, losses is the sequence of the batch losses in invocation order.
C9_BatchLossesInOrder ==
    (cls = LAB /\ runs >= 1) => (has_losses /\ losses = hist)

\* several different batch losses recorded across an epoch boundary
C9_Witness ==
    /\ cls = LAB /\ runs >= 1 /\ hook = "on_epoch_end"
    /\ Len(hist) >= 3 /\ hist[1] # hist[2] /\ losses = hist

\* C10: detect_oscillation_about_minima, fresh instance, one run: whenever
\* at least four losses are recorded and the four most recent go up, down,
\* up, on_epoch_end (returning normally) has set the stop flag.
C10_StopsOnOscillation ==
    ( /\ cls = DOM /\ FreshRun /\ hook = "on_epoch_end" /\ raised = "none"
      /\ UpDownUp(hist) )
    => stop_training

\* C11: detect_oscillation_about_minima, fresh instance, one run: every
\* on_epoch_end returns without raising, whatever numeric losses the host
\* reports, a loss of 0 followed by another epoch included.
C11_EpochEndNeverRaises ==
    (cls = DOM /\ FreshRun /\ hook = "on_epoch_end") => raised = "none"

====
